---- MODULE Spec2Model ----
(***************************************************************************)
(* A model of src/run.py (class AnalyticsDashboard): the data collector    *)
(* get_real_data_from_mcp, the website id resolution, the text-generation  *)
(* gateway call_ai_with_fallback, and the run create_dashboard with its    *)
(* chat loop.  The MCP session, the hosted endpoint, the local process and *)
(* the console are the environment: every answer they can give is a        *)
(* nondeterministic choice of the action that asks.                        *)
(*                                                                         *)
(* Strings the code transforms (strip, lower, f-strings) are sequences of  *)
(* one-character strings or of message fragments; a Python exception is a  *)
(* record naming its class and its message.                                *)
(***************************************************************************)
EXTENDS Integers, Sequences, FiniteSets, TLC

VARIABLES
    pc,             \* position of the run (create_dashboard and its callees)
    enable_chat,    \* create_dashboard's enable_chat argument
    account_id,     \* self.CLOUDFLARE_ACCOUNT_ID is set (truthy)
    api_token,      \* self.CLOUDFLARE_API_TOKEN is set (truthy)
    website_domain, \* the website_domain argument
    mcp_tools,      \* the tool names the MCP server advertises
    mcp_websites,   \* the content the server's get_websites returns
    real_data,      \* the snapshot get_real_data_from_mcp builds
    website_id,     \* the local website_id of get_real_data_from_mcp
    metric_idx,     \* position of the metric-type loop (1-based)
    calls,          \* the session operations performed, in order
    session_data,   \* self.session_data
    ai_caller,      \* who awaits call_ai_with_fallback: "dashboard" or "chat"
    ai_prompt,      \* the prompt passed to call_ai_with_fallback
    cf_error,       \* the exception caught from call_cloudflare_ai
    ai_log,         \* backend operations of the current gateway call
    ollama_result,  \* how call_ollama_fallback ended in the current gateway call
    ai_result,      \* how the last call_ai_with_fallback ended
    n_generate,     \* number of call_ai_with_fallback calls of the run
    user_input,     \* chat_mode's user_input (after strip)
    raw_input,      \* how the last input() call ended: a line, or an exception
    turns,          \* chat-loop iterations started
    resolve_in,     \* argument of a stand-alone get_website_id_from_domain call
    resolve_out,    \* its outcome
    stages,         \* the stages of create_dashboard completed, in order
    chat_state,     \* chat_mode: "not_entered", "running", "returned", "raised"
    prompts,        \* create_dashboard's prompts (the names list_prompts gave)
    hallucination_indicators,  \* create_dashboard's local of that name
    audit_in,       \* argument of a stand-alone detect_hallucinations call
    audit_out       \* its result

vars == <<pc, enable_chat, account_id, api_token, website_domain, mcp_tools,
          mcp_websites, real_data, website_id, metric_idx, calls, session_data,
          ai_caller, ai_prompt, cf_error, ai_log, ollama_result, ai_result,
          n_generate, user_input, raw_input, turns, resolve_in, resolve_out,
          stages, chat_state, prompts, hallucination_indicators, audit_in,
          audit_out>>

(***************************************************************************)
(* Bounds                                                                  *)
(***************************************************************************)
\* longest "data" array of a website list given to the stand-alone resolution
MaxSites == 2
\* longest "data" array the server returns in a collection pass
MaxCollectSites == 1
\* chat-loop iterations a run may start
MaxTurns == 2
\* pieces a text given to the stand-alone detect_hallucinations is made of
MaxPieces == 2

(***************************************************************************)
(* Python values                                                           *)
(***************************************************************************)
\* Python's None (also what dict.get gives for an absent key)
None == "None"

\* an outcome of a call: a returned value or a raised exception
Return(v) == [exc |-> "none", value |-> v, msg |-> <<>>]
Raise(cls, m) == [exc |-> cls, value |-> None, msg |-> m]

\* (variant: a test against None only)
Truthy_not_none(v) == v # None

\* Python truthiness of an Optional[str]
Truthy(v) == v # None /\ v # ""

RECURSIVE SeqsUpTo(_, _)
SeqsUpTo(S, n) ==
    IF n = 0 THEN {<<>>}
    ELSE LET shorter == SeqsUpTo(S, n - 1)
         IN  shorter \cup {Append(s, x) : s \in {t \in shorter : Len(t) = n - 1}, x \in S}

(***************************************************************************)
(* The website list envelope (spec section 6): content is a list of content *)
(* blocks; the first block's text is JSON; the JSON is an object with a    *)
(* "data" array of records with "domain" and "id".                         *)
(***************************************************************************)
Domains == {"a.com", "b.com", "B.com"}
TargetDomains == {"b.com", "c.com"}
Ids == {"1", "2"}

\* a JSON value met in the "data" array: a dict with optional domain and id,
\* or anything else (a number, a string, a list, null)
NonDict == [isdict |-> FALSE, domain |-> None, id |-> None]
Records ==
    {NonDict} \cup
    [isdict : {TRUE}, domain : Domains \cup {None}, id : Ids \cup {"", None}]

\* the value under "data": something a for loop can walk (a list; a string or
\* a dict walk as lists of non-dicts) or not (null, a number, a boolean)
NotIterable == [iterable |-> FALSE, items |-> <<>>]
DataValues(n) == {NotIterable} \cup [iterable : {TRUE}, items : SeqsUpTo(Records, n)]

\* the parsed JSON document: an object, with or without "data", or any other value
NonObject == [isobj |-> FALSE, has_data |-> FALSE, data |-> NotIterable]
NoDataObject == [isobj |-> TRUE, has_data |-> FALSE, data |-> NotIterable]
Documents(n) ==
    {NonObject, NoDataObject} \cup
    [isobj : {TRUE}, has_data : {TRUE}, data : DataValues(n)]

\* the text of a content block: valid JSON standing for a document, or not JSON
BadJson == [valid |-> FALSE, doc |-> NonObject]
Texts(n) == {BadJson} \cup [valid : {TRUE}, doc : Documents(n)]

\* a content block: TextContent (has .text) or another block (image, resource)
NoTextBlock == [has_text |-> FALSE, text |-> BadJson]
Blocks(n) == {NoTextBlock} \cup [has_text : {TRUE}, text : Texts(n)]

\* what call_tool("get_websites").content can be: a list of blocks (only the
\* first is read)
Contents(n) ==
    {[islist |-> TRUE, blocks |-> <<>>]} \cup
    [islist : {TRUE}, blocks : {<<b>> : b \in Blocks(n)}]

\* any websites_data argument: also a value that is not a list
NotAList == [islist |-> FALSE, blocks |-> <<>>]
WebsitesData(n) == {NotAList} \cup Contents(n)

(***************************************************************************)
(* get_website_id_from_domain                                              *)
(***************************************************************************)
\* json.loads(text): the document, or JSONDecodeError
json_loads(text) ==
    IF text.valid THEN Return(text.doc) ELSE Raise("JSONDecodeError", <<>>)

\* websites_json.get("data", []): AttributeError unless websites_json is a dict
get_data(doc) ==
    IF ~doc.isobj THEN Raise("AttributeError", <<>>)
    ELSE IF doc.has_data THEN Return(doc.data)
    ELSE Return([iterable |-> TRUE, items |-> <<>>])

\* the for loop of lines 137-139 from position i on: the id of the first
\* record whose domain equals the target; AttributeError at a non-dict
RECURSIVE scan_websites(_, _, _)
scan_websites(items, i, domain) ==
    IF i > Len(items) THEN Return(None)
    ELSE IF ~items[i].isdict THEN Raise("AttributeError", <<>>)
    ELSE IF items[i].domain = domain THEN Return(items[i].id)
    ELSE scan_websites(items, i + 1, domain)

\* the body of the try block, lines 132-140
resolve_body(websites_data, domain) ==
    IF ~(websites_data.islist /\ Len(websites_data.blocks) > 0) THEN Return(None)
    ELSE LET websites_content == websites_data.blocks[1] IN
         IF ~websites_content.has_text THEN Return(None)
         ELSE LET parsed == json_loads(websites_content.text) IN
              IF parsed.exc # "none" THEN parsed
              ELSE LET data == get_data(parsed.value) IN
                   IF data.exc # "none" THEN data
                   ELSE IF ~data.value.iterable
                        THEN Raise("TypeError", <<"object is not iterable">>)
                   ELSE scan_websites(data.value.items, 1, domain)

\* the exception classes the except clause of line 141 names
ResolveCaught == {"JSONDecodeError", "KeyError", "AttributeError"}

get_website_id_from_domain(websites_data, domain) ==
    LET r == resolve_body(websites_data, domain)
    IN  IF r.exc \in ResolveCaught THEN Return(None) ELSE r

(***************************************************************************)
(* The MCP session (external): call_tool either returns a result with a    *)
(* content or raises; list_tools returns the advertised names or raises.   *)
(***************************************************************************)
Tools == {"get_html", "get_websites", "get_website_stats", "get_pageview_series",
          "get_website_metrics", "get_active_visitors"}

\* the exception a failing session operation raises; str(e) is its msg
SessionError == Raise("Exception", <<"session error">>)

\* (variant: the list without "device")
MetricTypes_no_device == <<"url", "referrer", "browser", "os", "country">>

\* the metric types of the for loop, lines 246-253
MetricTypes == <<"url", "referrer", "browser", "os", "device", "country">>

\* f"metrics_{metric_type}", line 264
metrics_key(metric_type) == "metrics_" \o metric_type

\* the content of a successful call_tool(name, {... "type": type})
tool_content(name, type) ==
    IF name = "get_websites" THEN mcp_websites
    ELSE IF name = "get_website_metrics" THEN "content of " \o metrics_key(type)
    ELSE "content of " \o name

\* the outcomes of await session.call_tool(name, args)
call_tool(name, type) == {Return(tool_content(name, type)), SessionError}

\* the record of one session operation in the log
Call(op, name, type, ok) == [op |-> op, name |-> name, type |-> type, ok |-> ok]

\* the log after call_tool(name, {... "type": type}) ended as r
Logged(name, type, r) == Append(calls, Call("call_tool", name, type, r.exc = "none"))

\* arguments of the run, fixed (the defaults of parse_arguments)
start_date == "2025-06-01"
end_date == "2025-07-01"
timezone == "UTC"

\* d[k] = v on a dict
Put(d, k, v) == [x \in (DOMAIN d) \cup {k} |-> IF x = k THEN v ELSE d[x]]
\* the empty dict
EmptyDict == <<>>
\* d.get(k): None when absent
Get(d, k) == IF k \in DOMAIN d THEN d[k] ELSE None

(***************************************************************************)
(* get_real_data_from_mcp, lines 145-289.  Every early `return real_data`  *)
(* and the final one lead to pc = "collected".                             *)
(***************************************************************************)
\* lines 154-158
seed_real_data ==
    [k \in {"website_domain", "date_range", "timezone"} |->
        CASE k = "website_domain" -> website_domain
          [] k = "date_range" -> <<start_date, " to ", end_date>>
          [] k = "timezone" -> timezone]

\* (variant: the outer handler is missing and the exception escapes)
outer_except_missing(d, e) == [data |-> d, next |-> "raised"]

\* the handler of the outer try, lines 285-289: record and return
outer_except(d, e) == [data |-> Put(d, "general_error", e.msg), next |-> "collected"]

\* lines 160-165 with the outer handler
ListTools ==
    /\ pc = "list_tools"
    /\ \E ok \in BOOLEAN :
         /\ calls' = Append(calls, Call("list_tools", None, None, ok))
         /\ IF ok
            THEN /\ real_data' = Put(seed_real_data, "available_tools", mcp_tools)
                 /\ pc' = "get_html"
            ELSE LET h == outer_except(seed_real_data, SessionError)
                 IN  real_data' = h.data /\ pc' = h.next
    /\ website_id' = None
    /\ metric_idx' = 1
    /\ UNCHANGED <<enable_chat, account_id, api_token, website_domain, mcp_tools,
                   mcp_websites, session_data, ai_caller, ai_prompt, cf_error,
                   ai_log, ollama_result, ai_result, n_generate, user_input,
                   raw_input, turns, resolve_in, resolve_out, stages,
                   chat_state, prompts, hallucination_indicators, audit_in,
                   audit_out>>

available_tools == real_data["available_tools"]

\* what the collection steps leave alone
collect_frame ==
    UNCHANGED <<enable_chat, account_id, api_token, website_domain, mcp_tools,
                mcp_websites, session_data, ai_caller, ai_prompt, cf_error,
                ai_log, ollama_result, ai_result, n_generate, user_input,
                raw_input, turns, resolve_in, resolve_out, stages,
                chat_state, prompts, hallucination_indicators, audit_in,
                audit_out>>

\* (variant: the error is recorded but the return of line 175 is missing)
html_except_no_return(d, e) ==
    [data |-> Put(d, "html_error", e.msg), next |-> "get_websites"]

\* lines 172-175: record the error and return
html_except(d, e) == [data |-> Put(d, "html_error", e.msg), next |-> "collected"]

\* lines 167-175
GetHtml ==
    /\ pc = "get_html"
    /\ IF "get_html" \in available_tools
       THEN \E r \in call_tool("get_html", None) :
            /\ calls' = Logged("get_html", None, r)
            /\ IF r.exc = "none"
                 THEN real_data' = Put(real_data, "html", r.value) /\ pc' = "get_websites"
                 ELSE LET h == html_except(real_data, r)
                      IN  real_data' = h.data /\ pc' = h.next
       ELSE /\ pc' = "get_websites"
            /\ UNCHANGED <<real_data, calls>>
    /\ UNCHANGED <<website_id, metric_idx>>
    /\ collect_frame

\* lines 195-198: record the error and return
websites_except(d, e) == [data |-> Put(d, "websites_error", e.msg), next |-> "collected"]

\* lines 181-193 after a successful call: store the content, resolve the id
websites_try(d, content, domain) ==
    LET stored == Put(d, "websites", content)
        r == get_website_id_from_domain(content, domain)
    IN  IF r.exc # "none" THEN websites_except(stored, r)
        ELSE IF Truthy(r.value)
             THEN [data |-> Put(stored, "website_id", r.value), next |-> "check_website_id"]
             ELSE [data |-> stored, next |-> "collected"]

\* lines 177-198
GetWebsites ==
    /\ pc = "get_websites"
    /\ IF "get_websites" \in available_tools
       THEN \E r \in call_tool("get_websites", None) :
            /\ calls' = Logged("get_websites", None, r)
            /\ LET h == IF r.exc = "none"
                          THEN websites_try(real_data, r.value, website_domain)
                          ELSE websites_except(real_data, r)
                 IN  real_data' = h.data /\ pc' = h.next
       ELSE /\ pc' = "check_website_id"
            /\ UNCHANGED <<real_data, calls>>
    /\ UNCHANGED <<website_id, metric_idx>>
    /\ collect_frame

\* lines 200-204
CheckWebsiteId ==
    /\ pc = "check_website_id"
    /\ website_id' = Get(real_data, "website_id")
    /\ pc' = IF Truthy(website_id') THEN "get_website_stats" ELSE "collected"
    /\ UNCHANGED <<real_data, metric_idx, calls>>
    /\ collect_frame

\* lines 219-221
stats_except(d, e) == Put(d, "stats_error", e.msg)

\* lines 206-221
GetWebsiteStats ==
    /\ pc = "get_website_stats"
    /\ IF "get_website_stats" \in available_tools
       THEN \E r \in call_tool("get_website_stats", None) :
            /\ calls' = Logged("get_website_stats", None, r)
            /\ real_data' = IF r.exc = "none"
                              THEN Put(real_data, "website_stats", r.value)
                              ELSE stats_except(real_data, r)
       ELSE UNCHANGED <<real_data, calls>>
    /\ pc' = "get_pageview_series"
    /\ UNCHANGED <<website_id, metric_idx>>
    /\ collect_frame

\* lines 238-240
pageview_except(d, e) == Put(d, "pageview_error", e.msg)

\* lines 223-240
GetPageviewSeries ==
    /\ pc = "get_pageview_series"
    /\ IF "get_pageview_series" \in available_tools
       THEN \E r \in call_tool("get_pageview_series", None) :
            /\ calls' = Logged("get_pageview_series", None, r)
            /\ real_data' = IF r.exc = "none"
                              THEN Put(real_data, "pageview_series", r.value)
                              ELSE pageview_except(real_data, r)
       ELSE UNCHANGED <<real_data, calls>>
    /\ pc' = "get_website_metrics"
    /\ UNCHANGED <<website_id, metric_idx>>
    /\ collect_frame

\* (variant: the break of line 266 is missing)
metrics_success_no_break(d, idx, content) ==
    [data |-> Put(d, metrics_key(MetricTypes[idx]), content),
     idx |-> idx + 1,
     next |-> IF idx < Len(MetricTypes) THEN "get_website_metrics"
              ELSE "get_active_visitors"]

\* lines 264-266: keep the content and break out of the loop
metrics_success(d, idx, content) ==
    [data |-> Put(d, metrics_key(MetricTypes[idx]), content),
     idx |-> idx, next |-> "get_active_visitors"]

\* (variant: the pass ends when the last type has failed)
metrics_continue_abort(d, idx) ==
    [data |-> d, idx |-> idx + 1,
     next |-> IF idx < Len(MetricTypes) THEN "get_website_metrics"
              ELSE "collected"]

\* lines 267-268: continue with the next type; the loop ends after the last
metrics_continue(d, idx) ==
    [data |-> d, idx |-> idx + 1,
     next |-> IF idx < Len(MetricTypes) THEN "get_website_metrics"
              ELSE "get_active_visitors"]

\* lines 242-271, one pass of the for loop per step
GetWebsiteMetrics ==
    /\ pc = "get_website_metrics"
    /\ IF "get_website_metrics" \in available_tools
       THEN \E r \in call_tool("get_website_metrics", MetricTypes[metric_idx]) :
            /\ calls' = Logged("get_website_metrics", MetricTypes[metric_idx], r)
            /\ LET h == IF r.exc = "none"
                          THEN metrics_success(real_data, metric_idx, r.value)
                          ELSE metrics_continue(real_data, metric_idx)
                 IN  real_data' = h.data /\ metric_idx' = h.idx /\ pc' = h.next
       ELSE /\ pc' = "get_active_visitors"
            /\ UNCHANGED <<real_data, calls, metric_idx>>
    /\ UNCHANGED website_id
    /\ collect_frame

\* lines 281-283
active_visitors_except(d, e) == Put(d, "active_visitors_error", e.msg)

\* lines 273-283, then the return of line 289
GetActiveVisitors ==
    /\ pc = "get_active_visitors"
    /\ IF "get_active_visitors" \in available_tools
       THEN \E r \in call_tool("get_active_visitors", None) :
            /\ calls' = Logged("get_active_visitors", None, r)
            /\ real_data' = IF r.exc = "none"
                              THEN Put(real_data, "active_visitors", r.value)
                              ELSE active_visitors_except(real_data, r)
       ELSE UNCHANGED <<real_data, calls>>
    /\ pc' = "collected"
    /\ UNCHANGED <<website_id, metric_idx>>
    /\ collect_frame

(***************************************************************************)
(* Text: a str is a sequence of one-character strings                      *)
(***************************************************************************)
IsSpace(c) == c = " "

\* str.strip()
RECURSIVE LStrip(_)
LStrip(s) == IF s # <<>> /\ IsSpace(Head(s)) THEN LStrip(Tail(s)) ELSE s
RECURSIVE RStrip(_)
RStrip(s) ==
    IF s # <<>> /\ IsSpace(s[Len(s)]) THEN RStrip(SubSeq(s, 1, Len(s) - 1)) ELSE s
Strip(s) == RStrip(LStrip(s))

\* str.lower(), on ASCII
UpperLetters ==
    <<"A", "B", "C", "D", "E", "F", "G", "H", "I", "J", "K", "L", "M">> \o
    <<"N", "O", "P", "Q", "R", "S", "T", "U", "V", "W", "X", "Y", "Z">>
LowerLetters ==
    <<"a", "b", "c", "d", "e", "f", "g", "h", "i", "j", "k", "l", "m">> \o
    <<"n", "o", "p", "q", "r", "s", "t", "u", "v", "w", "x", "y", "z">>
LowerChar(c) ==
    IF \E i \in 1..Len(UpperLetters) : UpperLetters[i] = c
    THEN LowerLetters[CHOOSE i \in 1..Len(UpperLetters) : UpperLetters[i] = c]
    ELSE c
Lower(s) == [i \in 1..Len(s) |-> LowerChar(s[i])]

\* the f-string of a message: its fragments, in order
Contains(s, sub) ==
    \E i \in 0..(Len(s) - Len(sub)) : SubSeq(s, i + 1, i + Len(sub)) = sub

(***************************************************************************)
(* The text-generation gateway, lines 54-125                               *)
(***************************************************************************)
\* texts a backend produces before .strip()
RawTexts == {<<"o", "k">>, <<" ">>,
             <<" ", "M", "o", "c", "k", " ", "d", "a", "t", "a", " ">>}

\* what the hosted endpoint can answer to the POST of line 77: a transport
\* failure, a status, and for status 200 a JSON body with its success flag
HttpResponses ==
    {[connected |-> FALSE, status |-> 0, success |-> FALSE, response |-> <<>>],
     [connected |-> TRUE, status |-> 500, success |-> FALSE, response |-> <<>>],
     [connected |-> TRUE, status |-> 200, success |-> FALSE, response |-> <<>>]}
    \cup [connected : {TRUE}, status : {200}, success : {TRUE}, response : RawTexts]

\* (variant: `and` for `or` in the guard)
missing_secrets_both(acc, tok) == ~acc /\ ~tok

\* the guard of line 58
missing_secrets(acc, tok) == ~acc \/ ~tok

MissingSecretsError ==
    Raise("ValueError",
          <<"Missing CLOUDFLARE_ACCOUNT_ID or CLOUDFLARE_API_TOKEN environment variables">>)

\* lines 76-88: the outcome of call_cloudflare_ai for an answer of the endpoint
cloudflare_response(h) ==
    IF ~h.connected THEN Raise("ClientError", <<"cannot connect">>)
    ELSE IF h.status # 200
         THEN Raise("RuntimeError", <<"Cloudflare AI error (", "500", "): ", "error text">>)
    ELSE IF ~h.success
         THEN Raise("RuntimeError", <<"Cloudflare AI API error: ", "result">>)
    ELSE Return(Strip(h.response))

\* how the local process can end: the executable is missing, the spawn fails
\* otherwise, or the process exits with a return code and its stdout
OllamaRuns ==
    {[spawn |-> "FileNotFoundError", returncode |-> 0, stdout |-> <<>>],
     [spawn |-> "PermissionError", returncode |-> 0, stdout |-> <<>>],
     [spawn |-> "ok", returncode |-> 1, stdout |-> <<>>]}
    \cup [spawn : {"ok"}, returncode : {0}, stdout : RawTexts]

\* lines 92-109: the outcome of call_ollama_fallback
call_ollama_fallback(run) ==
    IF run.spawn = "FileNotFoundError"
    THEN Raise("RuntimeError", <<"Ollama is not installed or not in PATH">>)
    ELSE IF run.spawn # "ok" THEN Raise(run.spawn, <<"cannot execute ollama">>)
    ELSE IF run.returncode # 0 THEN Raise("RuntimeError", <<"Ollama error: ", "stderr text">>)
    ELSE Return(Strip(run.stdout))

\* (variant: the provider tag of line 121)
cloudflare_return_local_tag(response) == Return(<<response, "ollama">>)

\* line 115
cloudflare_return(response) == Return(<<response, "cloudflare">>)

\* (variant: the provider tag of line 115)
ollama_return_hosted_tag(response) == Return(<<response, "cloudflare">>)

\* line 121
ollama_return(response) == Return(<<response, "ollama">>)

\* (variant: the message names the local failure only)
both_failed_local_only(cf, ol) ==
    Raise("RuntimeError", <<"Both AI services failed. Ollama: ">> \o ol.msg)

\* lines 122-125
both_failed(cf, ol) ==
    Raise("RuntimeError",
          <<"Both AI services failed. Cloudflare: ">> \o cf.msg
              \o <<", Ollama: ">> \o ol.msg)

NoResult == [exc |-> "unset", value |-> None, msg |-> <<>>]

\* a call of call_ai_with_fallback(prompt) by `caller`: a new frame
invoke_gateway(caller, prompt) ==
    /\ ai_caller' = caller
    /\ ai_prompt' = prompt
    /\ ai_log' = <<>>
    /\ cf_error' = NoResult
    /\ ollama_result' = NoResult
    /\ ai_result' = NoResult
    /\ n_generate' = n_generate + 1
    /\ pc' = "call_cloudflare_ai"

gateway_frame ==
    UNCHANGED <<enable_chat, account_id, api_token, website_domain, mcp_tools,
                mcp_websites, real_data, website_id, metric_idx, calls,
                session_data, ai_caller, ai_prompt, n_generate, user_input,
                raw_input, turns, resolve_in, resolve_out, stages, chat_state,
                prompts, hallucination_indicators, audit_in, audit_out>>

\* lines 113-118 with call_cloudflare_ai, lines 54-88
CallCloudflare ==
    /\ pc = "call_cloudflare_ai"
    /\ IF missing_secrets(account_id, api_token)
       THEN /\ ai_log' = Append(ai_log, "call_cloudflare_ai")
            /\ cf_error' = MissingSecretsError
            /\ pc' = "call_ollama_fallback"
            /\ UNCHANGED ai_result
       ELSE /\ ai_log' = ai_log \o <<"call_cloudflare_ai", "http_post">>
            /\ \E h \in HttpResponses :
                 LET r == cloudflare_response(h) IN
                 IF r.exc = "none"
                 THEN /\ ai_result' = cloudflare_return(r.value)
                      /\ pc' = "ai_return"
                      /\ UNCHANGED cf_error
                 ELSE /\ cf_error' = r
                      /\ pc' = "call_ollama_fallback"
                      /\ UNCHANGED ai_result
    /\ UNCHANGED ollama_result
    /\ gateway_frame

\* lines 119-125 with call_ollama_fallback, lines 90-109
CallOllama ==
    /\ pc = "call_ollama_fallback"
    /\ ai_log' = Append(ai_log, "call_ollama_fallback")
    /\ \E run \in OllamaRuns :
         LET r == call_ollama_fallback(run) IN
         /\ ollama_result' = r
         /\ ai_result' = IF r.exc = "none" THEN ollama_return(r.value)
                         ELSE both_failed(cf_error, r)
    /\ pc' = "ai_return"
    /\ UNCHANGED cf_error
    /\ gateway_frame

(***************************************************************************)
(* Prompts, lines 291-341                                                  *)
(***************************************************************************)
\* json.dumps(d, indent=2, default=str): the text rendering of a dict
json_dumps(d) == [json_text_of |-> d]

\* lines 291-320
create_validation_prompt(mcp_prompt, data) ==
    [template |-> "validation", guide |-> mcp_prompt, data |-> json_dumps(data),
     question |-> <<>>]

\* (variant: the prompt carries no context)
create_chat_prompt_no_context(user_question) ==
    [template |-> "chat", guide |-> None, data |-> json_dumps(EmptyDict),
     question |-> user_question]

\* lines 322-341: the context is self.session_data
create_chat_prompt(user_question) ==
    [template |-> "chat", guide |-> None, data |-> json_dumps(session_data),
     question |-> user_question]

NoPrompt == [template |-> "none", guide |-> None, data |-> json_dumps(EmptyDict),
             question |-> <<>>]

(***************************************************************************)
(* detect_hallucinations, lines 343-378                                    *)
(***************************************************************************)
\* the list of lines 345-371
hallucination_indicator_list ==
    <<<<"1", ",", "2", "3", "4", ",", "5", "6", "7">>,
      <<"4", "5", ",", "6", "7", "8">>,
      <<"1", "2", ",", "3", "4", "5">>,
      <<"1", "0", "0", ",", "0", "0", "0">>,
      <<"5", "0", ",", "0", "0", "0">>,
      <<"T", "o", "t", "a", "l", " ", "p", "a", "g", "e", "v", "i", "e", "w", "s", ":", " ", "1">>,
      <<"U", "n", "i", "q", "u", "e", " ", "v", "i", "s", "i", "t", "o", "r", "s", ":", " ", "1">>,
      <<"f", "i", "c", "t", "i", "o", "n", "a", "l">>,
      <<"e", "x", "a", "m", "p", "l", "e", " ", "d", "a", "t", "a">>,
      <<"p", "l", "a", "c", "e", "h", "o", "l", "d", "e", "r">>,
      <<"s", "a", "m", "p", "l", "e", " ", "d", "a", "t", "a">>,
      <<"d", "u", "m", "m", "y", " ", "d", "a", "t", "a">>,
      <<"t", "e", "s", "t", " ", "d", "a", "t", "a">>,
      <<"m", "o", "c", "k", " ", "d", "a", "t", "a">>,
      <<"p", "e", "a", "k", " ", "h", "o", "u", "r", "s">>,
      <<"b", "u", "s", "y", " ", "p", "e", "r", "i", "o", "d", "s">>,
      <<"h", "i", "g", "h", " ", "t", "r", "a", "f", "f", "i", "c", " ", "t", "i", "m", "e", "s">>,
      <<"4", "5", "%", " ", "i", "n", "c", "r", "e", "a", "s", "e">>,
      <<"3", "0", "%", " ", "b", "o", "u", "n", "c", "e", " ", "r", "a", "t", "e">>,
      <<"2", "5", "%", " ", "g", "r", "o", "w", "t", "h">>>>

\* (variant: the test without .lower())
indicator_found_case_sensitive(indicator, ai_response) ==
    Contains(ai_response, indicator)

\* the test of line 375
indicator_found(indicator, ai_response) ==
    Contains(Lower(ai_response), Lower(indicator))

\* the for loop of lines 374-376 from position i on
RECURSIVE detect_from(_, _, _)
detect_from(i, found_indicators, ai_response) ==
    IF i > Len(hallucination_indicator_list) THEN found_indicators
    ELSE detect_from(i + 1,
                     IF indicator_found(hallucination_indicator_list[i], ai_response)
                     THEN Append(found_indicators, hallucination_indicator_list[i])
                     ELSE found_indicators,
                     ai_response)

detect_hallucinations(ai_response) == detect_from(1, <<>>, ai_response)

(***************************************************************************)
(* create_dashboard, lines 412-514                                         *)
(***************************************************************************)
run_frame ==
    UNCHANGED <<enable_chat, account_id, api_token, website_domain, mcp_tools,
                mcp_websites, resolve_in, resolve_out, audit_in, audit_out>>

\* (variant: the handler re-raises)
dashboard_except_reraise == "raised"

\* the handler of lines 510-514: print, and the method returns
dashboard_except == "done"

\* lines 421-424: stdio_client and ClientSession are entered; a failure is
\* caught by the handler of lines 510-514
Connect ==
    /\ pc = "idle"
    /\ \E ok \in BOOLEAN :
         /\ pc' = IF ok THEN "connected" ELSE dashboard_except
         /\ stages' = IF ok THEN Append(stages, "Connected") ELSE stages
    /\ UNCHANGED <<real_data, website_id, metric_idx, calls, session_data,
                   ai_caller, ai_prompt, cf_error, ai_log, ollama_result, ai_result,
                   n_generate, user_input, raw_input, turns, chat_state, prompts,
                   hallucination_indicators>>
    /\ run_frame

\* (variant: the handler has no return)
initialize_except_no_return == "list_tools"

\* the handler of lines 430-432: print and return
initialize_except == "done"

\* lines 426-432
Initialize ==
    /\ pc = "connected"
    /\ \E ok \in BOOLEAN :
         /\ calls' = Append(calls, Call("initialize", None, None, ok))
         /\ pc' = IF ok THEN "list_tools" ELSE initialize_except
         /\ stages' = IF ok THEN Append(stages, "Initialized") ELSE stages
    /\ UNCHANGED <<real_data, website_id, metric_idx, session_data,
                   ai_caller, ai_prompt, cf_error, ai_log, ollama_result, ai_result,
                   n_generate, user_input, raw_input, turns, chat_state, prompts,
                   hallucination_indicators>>
    /\ run_frame

\* lines 436-441: get_real_data_from_mcp has returned; keep the snapshot
StoreSessionData ==
    /\ pc = "collected"
    /\ session_data' = real_data
    /\ stages' = Append(stages, "DataCollected")
    /\ pc' = "list_prompts"
    /\ UNCHANGED <<real_data, website_id, metric_idx, calls,
                   ai_caller, ai_prompt, cf_error, ai_log, ollama_result, ai_result,
                   n_generate, user_input, raw_input, turns, chat_state, prompts,
                   hallucination_indicators>>
    /\ run_frame

\* the prompt names a server may list
PromptLists == {{}, {"Create Dashboard"}, {"Create Dashboard", "Other"}, {"Other"}}

\* the handler of lines 507-508: print, and the method comes to its end
prompt_except == "done"

\* (variant: any listed prompt will do)
has_any_prompt(names) == names # {}

\* the test of line 449
has_dashboard_prompt(names) == "Create Dashboard" \in names

\* lines 444-449 and 504-508
ListPrompts ==
    /\ pc = "list_prompts"
    /\ \/ /\ calls' = Append(calls, Call("list_prompts", None, None, FALSE))
          /\ pc' = prompt_except
          /\ UNCHANGED prompts
       \/ /\ calls' = Append(calls, Call("list_prompts", None, None, TRUE))
          /\ \E names \in PromptLists :
               /\ prompts' = names
               /\ pc' = IF has_dashboard_prompt(names) THEN "get_prompt" ELSE "done"
    /\ UNCHANGED <<real_data, website_id, metric_idx, session_data,
                   ai_caller, ai_prompt, cf_error, ai_log, ollama_result, ai_result,
                   n_generate, user_input, raw_input, turns, stages, chat_state,
                   hallucination_indicators>>
    /\ run_frame

\* lines 450-476 and 502-508: get_prompt, then the validation prompt, then the
\* call of call_ai_with_fallback
GetPrompt ==
    /\ pc = "get_prompt"
    /\ \/ /\ calls' = Append(calls, Call("get_prompt", "Create Dashboard", None, FALSE))
          /\ pc' = prompt_except
          /\ UNCHANGED <<ai_caller, ai_prompt, ai_log, n_generate, cf_error,
                         ollama_result, ai_result, stages>>
       \/ /\ calls' = Append(calls, Call("get_prompt", "Create Dashboard", None, TRUE))
          /\ \/ /\ pc' = "done"                \* no messages: line 503
                /\ UNCHANGED <<ai_caller, ai_prompt, ai_log, n_generate, cf_error,
                               ollama_result, ai_result, stages>>
             \/ /\ stages' = Append(stages, "PromptRendered")
                /\ invoke_gateway("dashboard",
                                  create_validation_prompt("guide text", real_data))
    /\ UNCHANGED <<real_data, website_id, metric_idx, session_data,
                   user_input, raw_input, turns, chat_state, prompts,
                   hallucination_indicators>>
    /\ run_frame

\* (variant: chat_mode is called whatever the flag)
chat_requested_always(flag) == TRUE

\* the test of line 499
chat_requested(flag) == flag

\* lines 474-508 after call_ai_with_fallback ended: print and audit, then the
\* chat loop if enabled; an exception goes to the handler of line 507
DashboardAnswer ==
    /\ pc = "ai_return"
    /\ ai_caller = "dashboard"
    /\ IF ai_result.exc = "none"
       THEN /\ stages' = stages \o <<"ResponseGenerated", "Audited">>
            /\ hallucination_indicators' = detect_hallucinations(ai_result.value[1])
            /\ IF chat_requested(enable_chat)
               THEN pc' = "chat_read" /\ chat_state' = "running"
               ELSE pc' = "done" /\ UNCHANGED chat_state
       ELSE /\ pc' = prompt_except
            /\ UNCHANGED <<stages, hallucination_indicators, chat_state>>
    /\ UNCHANGED <<real_data, website_id, metric_idx, calls, session_data,
                   ai_caller, ai_prompt, cf_error, ai_log, ollama_result, ai_result,
                   n_generate, user_input, raw_input, turns, prompts>>
    /\ run_frame

(***************************************************************************)
(* chat_mode, lines 380-410                                                *)
(***************************************************************************)
Chars(w) ==
    CASE w = "quit" -> <<"q", "u", "i", "t">>
      [] w = "exit" -> <<"e", "x", "i", "t">>
      [] w = "q" -> <<"q">>
      [] w = "" -> <<>>

\* the list of line 389
QuitWords == {Chars("quit"), Chars("exit"), Chars("q"), Chars("")}

\* the lines a user may type
InputLines ==
    QuitWords \cup
    {<<"Q">>, <<"Q", "U", "I", "T">>, <<"E", "x", "i", "t">>, <<" ", "q", " ">>,
     <<" ">>, <<"q", "q">>, <<"h", "i">>, <<" ", "h", "i">>}

\* how input() can end
InputOutcomes ==
    {Return(l) : l \in InputLines}
    \cup {Raise("EOFError", <<>>), Raise("KeyboardInterrupt", <<>>)}

\* line 387: .strip() of the line read
read_user_input(line) == Strip(line)

\* (variant: the test without .lower())
is_quit_case_sensitive(input) == input \in QuitWords

\* the test of line 389
is_quit(input) == Lower(input) \in QuitWords

\* the classes that derive from BaseException and not from Exception
BaseOnly == {"KeyboardInterrupt", "SystemExit", "GeneratorExit"}

\* (variant: both handlers leave the loop)
chat_except_break(cls) ==
    IF cls = "KeyboardInterrupt" THEN "break"
    ELSE IF cls \notin BaseOnly THEN "break"
    ELSE "raise"

\* (variant: no clause for the interrupt)
chat_except_no_interrupt_clause(cls) ==
    IF cls \notin BaseOnly THEN "continue" ELSE "raise"

\* the except clauses of lines 405-410, for an exception of class cls
chat_except(cls) ==
    IF cls = "KeyboardInterrupt" THEN "break"
    ELSE IF cls \notin BaseOnly THEN "continue"
    ELSE "raise"

\* where chat_mode goes on a break, a continue and an exception that leaves it
loop_pc(how) ==
    CASE how = "break" -> "done"
      [] how = "continue" -> "chat_read"
      [] how = "raise" -> "raised"
loop_state(how) ==
    CASE how = "break" -> "returned"
      [] how = "continue" -> "running"
      [] how = "raise" -> "raised"

\* one pass from the top of the while loop to the await of line 398
ChatRead ==
    /\ pc = "chat_read"
    /\ turns < MaxTurns
    /\ turns' = turns + 1
    /\ \E r \in InputOutcomes :
         /\ raw_input' = r
         /\ IF r.exc # "none"
            THEN /\ pc' = loop_pc(chat_except(r.exc))
                 /\ chat_state' = loop_state(chat_except(r.exc))
                 /\ UNCHANGED <<user_input, ai_caller, ai_prompt, ai_log, n_generate,
                                cf_error, ollama_result, ai_result>>
            ELSE /\ user_input' = read_user_input(r.value)
                 /\ IF is_quit(user_input')
                    THEN /\ pc' = loop_pc("break")
                         /\ chat_state' = loop_state("break")
                         /\ UNCHANGED <<ai_caller, ai_prompt, ai_log, n_generate,
                                        cf_error, ollama_result, ai_result>>
                    ELSE /\ invoke_gateway("chat", create_chat_prompt(user_input'))
                         /\ UNCHANGED chat_state
    /\ UNCHANGED <<real_data, website_id, metric_idx, calls, session_data, stages,
                   prompts, hallucination_indicators>>
    /\ run_frame

\* lines 398-410 after call_ai_with_fallback ended: print the answer, or the
\* error (line 408), and go round the loop; the locals of the pass are dead
ChatAnswer ==
    /\ pc = "ai_return"
    /\ ai_caller = "chat"
    /\ LET how == IF ai_result.exc = "none" THEN "continue"
                  ELSE chat_except(ai_result.exc)
       IN  pc' = loop_pc(how) /\ chat_state' = loop_state(how)
    /\ user_input' = <<>>
    /\ ai_result' = NoResult
    /\ ai_log' = <<>>
    /\ cf_error' = NoResult
    /\ ollama_result' = NoResult
    /\ UNCHANGED <<real_data, website_id, metric_idx, calls, session_data,
                   ai_caller, ai_prompt, n_generate, raw_input, turns, stages,
                   prompts, hallucination_indicators>>
    /\ run_frame

(***************************************************************************)
(* A stand-alone call of get_website_id_from_domain                        *)
(***************************************************************************)
Resolve ==
    /\ pc = "resolve"
    /\ resolve_out' = get_website_id_from_domain(resolve_in, website_domain)
    /\ pc' = "resolved"
    /\ UNCHANGED <<enable_chat, account_id, api_token, website_domain, mcp_tools,
                   mcp_websites, real_data, website_id, metric_idx, calls,
                   session_data, ai_caller, ai_prompt, cf_error, ai_log,
                   ollama_result, ai_result, n_generate, user_input, raw_input,
                   turns, resolve_in, stages, chat_state, prompts,
                   hallucination_indicators, audit_in, audit_out>>

(***************************************************************************)
(* A stand-alone call of detect_hallucinations                             *)
(***************************************************************************)
Audit ==
    /\ pc = "audit"
    /\ audit_out' = detect_hallucinations(audit_in)
    /\ pc' = "audited"
    /\ UNCHANGED <<enable_chat, account_id, api_token, website_domain, mcp_tools,
                   mcp_websites, real_data, website_id, metric_idx, calls,
                   session_data, ai_caller, ai_prompt, cf_error, ai_log,
                   ollama_result, ai_result, n_generate, user_input, raw_input,
                   turns, resolve_in, resolve_out, stages, chat_state, prompts,
                   hallucination_indicators, audit_in>>

(***************************************************************************)
(* Specifications                                                          *)
(***************************************************************************)
\* the state of a fresh AnalyticsDashboard (lines 21-25) before any call
Fresh ==
    /\ real_data = EmptyDict
    /\ website_id = None
    /\ metric_idx = 1
    /\ calls = <<>>
    /\ session_data = EmptyDict
    /\ ai_caller = "none"
    /\ ai_prompt = NoPrompt
    /\ cf_error = NoResult
    /\ ai_log = <<>>
    /\ ollama_result = NoResult
    /\ ai_result = NoResult
    /\ n_generate = 0
    /\ user_input = <<>>
    /\ raw_input = NoResult
    /\ turns = 0
    /\ resolve_out = NoResult
    /\ stages = <<>>
    /\ chat_state = "not_entered"
    /\ prompts = {}
    /\ hallucination_indicators = <<>>
    /\ audit_out = <<>>

\* a website list in which b.com has id "1"
SitesWithB ==
    [islist |-> TRUE, blocks |-> <<[has_text |-> TRUE, text |->
        [valid |-> TRUE, doc |-> [isobj |-> TRUE, has_data |-> TRUE, data |->
            [iterable |-> TRUE, items |->
                <<[isdict |-> TRUE, domain |-> "b.com", id |-> "1"]>>]]]]>>]

\* the servers of a whole run: the tools advertised and the website list
RunToolSets ==
    {{}, {"get_html", "get_websites", "get_website_metrics", "get_active_visitors"},
     Tools}
RunContents == {SitesWithB}

\* a whole run of create_dashboard
Init ==
    /\ pc = "idle"
    /\ enable_chat \in BOOLEAN
    /\ account_id \in BOOLEAN
    /\ api_token \in BOOLEAN
    /\ website_domain = "b.com"
    /\ mcp_tools \in RunToolSets
    /\ mcp_websites \in RunContents
    /\ resolve_in = NotAList
    /\ audit_in = <<>>
    /\ Fresh

Collect ==
    \/ ListTools
    \/ GetHtml
    \/ GetWebsites
    \/ CheckWebsiteId
    \/ GetWebsiteStats
    \/ GetPageviewSeries
    \/ GetWebsiteMetrics
    \/ GetActiveVisitors

\* the steps of create_dashboard outside chat_mode
Dashboard ==
    \/ Connect
    \/ Initialize
    \/ Collect
    \/ StoreSessionData
    \/ ListPrompts
    \/ GetPrompt
    \/ CallCloudflare
    \/ CallOllama
    \/ DashboardAnswer

Next ==
    \/ Dashboard
    \/ ChatRead
    \/ ChatAnswer

Spec == Init /\ [][Next]_vars

\* a run of create_dashboard(..., enable_chat=False): line 499 never calls
\* chat_mode, and a step that can be taken is taken, since the event loop
\* runs the coroutine until it ends
InitNoChat ==
    /\ pc = "idle"
    /\ enable_chat = FALSE
    /\ account_id \in BOOLEAN
    /\ api_token \in BOOLEAN
    /\ website_domain = "b.com"
    /\ mcp_tools \in RunToolSets
    /\ mcp_websites \in RunContents
    /\ resolve_in = NotAList
    /\ audit_in = <<>>
    /\ Fresh

SpecNoChat == InitNoChat /\ [][Dashboard]_vars /\ WF_vars(Dashboard)

\* one collection pass, get_real_data_from_mcp on an initialized session,
\* against any set of advertised tools and any website list
InitCollect ==
    /\ pc = "list_tools"
    /\ enable_chat = FALSE
    /\ account_id = TRUE
    /\ api_token = TRUE
    /\ website_domain = "b.com"
    /\ mcp_tools \in SUBSET Tools
    /\ mcp_websites \in Contents(MaxCollectSites)
    /\ resolve_in = NotAList
    /\ audit_in = <<>>
    /\ Fresh

SpecCollect == InitCollect /\ [][Collect]_vars

\* one call of get_website_id_from_domain on any argument
InitResolve ==
    /\ pc = "resolve"
    /\ enable_chat = FALSE
    /\ account_id = TRUE
    /\ api_token = TRUE
    /\ website_domain \in TargetDomains
    /\ mcp_tools = {}
    /\ mcp_websites = SitesWithB
    /\ resolve_in \in WebsitesData(MaxSites)
    /\ audit_in = <<>>
    /\ Fresh

SpecResolve == InitResolve /\ [][Resolve]_vars

\* the pieces the texts given to the stand-alone call are made of: indicators
\* in several cases, parts of indicators and text without any
AuditPieces ==
    {<<"4", "5", "%", " ", "i", "n", "c", "r", "e", "a", "s", "e">>,
     <<"4", "5", "%", " ", "I", "N", "C", "R", "E", "A", "S", "E">>,
     <<"S", "a", "m", "p", "l", "e", " ", "D", "a", "t", "a">>,
     <<"m", "o", "c", "k", " ", "d", "a", "t", "a">>,
     <<"1", "2", ",", "3", "4", "5">>,
     <<"1", ",", "2", "3", "4", ",", "5", "6", "7">>,
     <<"r", "e", "v", "e", "n", "u", "e", " ", "g", "r", "e", "w", " ">>,
     <<" ", "l", "a", "s", "t", " ", "m", "o", "n", "t", "h">>,
     <<"4", "5", "%", " ", "i", "n", "c", "r">>,
     <<"e", "a", "s", "e">>,
     <<"T", "o", "t", "a", "l", " ", "P", "a", "g", "e", "v", "i", "e", "w", "s", ":", " ", "1">>,
     <<"p", "e", "a", "k", " ", "h", "o", "u", "r", "s">>}

\* the concatenation of a sequence of strings
RECURSIVE Concat(_)
Concat(ss) == IF ss = <<>> THEN <<>> ELSE Head(ss) \o Concat(Tail(ss))

AuditTexts(n) == {Concat(ss) : ss \in SeqsUpTo(AuditPieces, n)}

\* one call of detect_hallucinations on any text
InitAudit ==
    /\ pc = "audit"
    /\ enable_chat = FALSE
    /\ account_id = TRUE
    /\ api_token = TRUE
    /\ website_domain = "b.com"
    /\ mcp_tools = {}
    /\ mcp_websites = SitesWithB
    /\ resolve_in = NotAList
    /\ audit_in \in AuditTexts(MaxPieces)
    /\ Fresh

SpecAudit == InitAudit /\ [][Audit]_vars

(***************************************************************************)
(* Properties of the gateway                                               *)
(***************************************************************************)
HostedFailed == cf_error.exc # "unset"
LocalSucceeded == ollama_result.exc = "none"
LocalFailed == ollama_result.exc \notin {"none", "unset"}
SecretMissing == ~account_id \/ ~api_token
InLog(log, x) == \E i \in 1..Len(log) : log[i] = x

\* C1: when the hosted call has failed and the local call succeeded,
\* call_ai_with_fallback returns (the local backend's text, "ollama") and
\* raises nothing.
C1_FallbackReturnsLocal ==
    (pc = "ai_return" /\ HostedFailed /\ LocalSucceeded)
        => /\ ai_result.exc = "none"
           /\ ai_result.value = <<ollama_result.value, "ollama">>

C1_Witness ==
    /\ pc = "ai_return"
    /\ cf_error.exc = "RuntimeError"
    /\ LocalSucceeded
    /\ ollama_result.value = <<"o", "k">>

\* C2: when both the hosted and the local call have failed,
\* call_ai_with_fallback returns nothing and raises one error whose message
\* contains the hosted failure's message and the local failure's message.
C2_BothFailAggregates ==
    (pc = "ai_return" /\ HostedFailed /\ LocalFailed)
        => /\ ai_result.exc = "RuntimeError"
           /\ ai_result.value = None
           /\ cf_error.msg # <<>> /\ Contains(ai_result.msg, cf_error.msg)
           /\ ollama_result.msg # <<>> /\ Contains(ai_result.msg, ollama_result.msg)

C2_Witness ==
    /\ pc = "ai_return"
    /\ cf_error.exc = "RuntimeError"
    /\ ollama_result.exc = "RuntimeError"
    /\ ai_result.exc = "RuntimeError"

Keys == DOMAIN real_data
Returned == pc = "collected"

\* the success keys of a retrieval category, by tool
SuccessKeys(tool) ==
    CASE tool = "get_html" -> {"html"}
      [] tool = "get_websites" -> {"websites"}
      [] tool = "get_website_stats" -> {"website_stats"}
      [] tool = "get_pageview_series" -> {"pageview_series"}
      [] tool = "get_website_metrics" ->
            {metrics_key(MetricTypes[i]) : i \in 1..Len(MetricTypes)}
      [] tool = "get_active_visitors" -> {"active_visitors"}

\* the error keys of a category: <success key>_error, and the shorter
\* spellings, so that a spelling alone breaks nothing below
ErrorKeys(tool) ==
    {k \o "_error" : k \in SuccessKeys(tool)}
    \cup (CASE tool = "get_website_stats" -> {"stats_error"}
            [] tool = "get_pageview_series" -> {"pageview_error"}
            [] tool = "get_website_metrics" -> {"metrics_error"}
            [] OTHER -> {})

Attempted(tool) == \E i \in 1..Len(calls) : calls[i].name = tool
FailedCall(i) == calls[i].op = "call_tool" /\ ~calls[i].ok

\* C4 as stated: in a returned snapshot no category has both its success key
\* and its error key, and every attempted category has one of the two.
C4_SuccessXorError ==
    Returned =>
        \A tool \in Tools :
            /\ ~(SuccessKeys(tool) \cap Keys # {} /\ ErrorKeys(tool) \cap Keys # {})
            /\ Attempted(tool) => (SuccessKeys(tool) \cup ErrorKeys(tool)) \cap Keys # {}

\* the keys of the steps after get_html
LaterKeys ==
    {"website_id"} \cup UNION {SuccessKeys(t) : t \in Tools \ {"get_html"}}

HtmlFailedAt(i) == calls[i].name = "get_html" /\ ~calls[i].ok

\* C5: when the get_html call fails, no tool is called after it and the
\* snapshot returned has html_error and no key of a later step, whatever
\* tools are advertised.
C5_HtmlFailureStops ==
    \A i \in 1..Len(calls) :
        HtmlFailedAt(i)
            => /\ Returned
               /\ \A j \in (i + 1)..Len(calls) : calls[j].op # "call_tool"
               /\ "html_error" \in Keys
               /\ "html" \notin Keys
               /\ LaterKeys \cap Keys = {}

C5_Witness ==
    /\ Returned
    /\ mcp_tools = Tools
    /\ \E i \in 1..Len(calls) : HtmlFailedAt(i)

IsMetricsCall(c) == c.name = "get_website_metrics"
MetricsCalls == SelectSeq(calls, IsMetricsCall)

\* C6: the snapshot has at most one metrics_<type> key; the types are tried
\* in the priority order; a type has a key exactly if its call succeeded; and
\* no type is tried after one that succeeded.
C6_FirstMetricWins ==
    LET m == MetricsCalls IN
    /\ Cardinality(SuccessKeys("get_website_metrics") \cap Keys) <= 1
    /\ Len(m) <= Len(MetricTypes)
    /\ \A i \in 1..Len(m) :
         /\ m[i].type = MetricTypes[i]
         /\ m[i].ok => i = Len(m)
         /\ m[i].ok <=> metrics_key(m[i].type) \in Keys
    /\ \A k \in SuccessKeys("get_website_metrics") \cap Keys :
         \E i \in 1..Len(m) : k = metrics_key(m[i].type)

C6_Witness ==
    /\ Returned
    /\ Len(MetricsCalls) = 2
    /\ ~MetricsCalls[1].ok
    /\ MetricsCalls[2].ok
    /\ "metrics_referrer" \in Keys
    /\ "metrics_url" \notin Keys

\* C9: get_real_data_from_mcp never raises and always returns: whatever
\* fails, the snapshot keeps website_domain, date_range and timezone, and a
\* failure of list_tools, which no step guards, is recorded as general_error.
C9_NeverRaises ==
    /\ pc # "raised"
    /\ ~Returned => ENABLED Collect
    /\ pc # "list_tools"
         => /\ {"website_domain", "date_range", "timezone"} \subseteq Keys
            /\ real_data["website_domain"] = website_domain
            /\ real_data["date_range"] = <<start_date, " to ", end_date>>
            /\ real_data["timezone"] = timezone
    /\ \A i \in 1..Len(calls) :
         (calls[i].op = "list_tools" /\ ~calls[i].ok)
            => /\ Returned
               /\ "general_error" \in Keys
               /\ real_data["general_error"] = SessionError.msg

C9_Witness ==
    /\ Returned
    /\ calls = <<Call("list_tools", None, None, FALSE)>>
    /\ "general_error" \in Keys

\* the error keys C10 accepts for a failed call
ErrorKeysOfCall(c) ==
    IF c.name = "get_website_metrics"
    THEN {metrics_key(c.type) \o "_error", "metrics_error"}
    ELSE ErrorKeys(c.name)

\* C10 as stated: every retrieval that was attempted and failed has left its
\* error key in the returned snapshot; so a pass in which every
\* get_website_metrics attempt failed has an error key for metrics.
C10_EveryFailureRecorded ==
    Returned =>
        \A i \in 1..Len(calls) :
            FailedCall(i) => ErrorKeysOfCall(calls[i]) \cap Keys # {}

(***************************************************************************)
(* Properties of get_website_id_from_domain                                *)
(***************************************************************************)
\* the website records of an argument that is a list whose first block is a
\* text holding a JSON object with a "data" array; no records otherwise
ParsedList(wd) ==
    IF /\ wd.islist /\ Len(wd.blocks) > 0
       /\ wd.blocks[1].has_text /\ wd.blocks[1].text.valid
       /\ wd.blocks[1].text.doc.isobj /\ wd.blocks[1].text.doc.has_data
       /\ wd.blocks[1].text.doc.data.iterable
    THEN wd.blocks[1].text.doc.data.items
    ELSE <<>>

IsMatch(rec, domain) == rec.isdict /\ rec.domain = domain

\* the id of the first record of the list whose domain is the target
FirstMatchId(items, domain) ==
    IF \E i \in 1..Len(items) : IsMatch(items[i], domain)
    THEN LET first == CHOOSE i \in 1..Len(items) :
                        /\ IsMatch(items[i], domain)
                        /\ \A j \in 1..(i - 1) : ~IsMatch(items[j], domain)
         IN  items[first].id
    ELSE None

\* C7 as stated: the call never raises; it returns the id of the first
\* record whose domain equals the target, and None when there is none, when
\* the list is empty or when the content cannot be parsed.  (A list holding
\* something that is not a record counts as content that cannot be parsed.)
C7_ResolvesOrNone ==
    pc = "resolved" =>
        LET items == ParsedList(resolve_in) IN
        /\ resolve_out.exc = "none"
        /\ (\A i \in 1..Len(items) : items[i].isdict)
              => resolve_out.value = FirstMatchId(items, website_domain)

(***************************************************************************)
(* Properties of the chat loop                                             *)
(***************************************************************************)
\* a step of the loop that read a line
ReadsLine == pc = "chat_read" /\ turns' = turns + 1 /\ raw_input'.exc = "none"
EndsLoopWithoutGenerate == pc' = "done" /\ n_generate' = n_generate
GeneratesOnce ==
    /\ n_generate' = n_generate + 1
    /\ pc' = "call_cloudflare_ai"
    /\ ai_caller' = "chat"
    /\ ai_prompt'.data = json_dumps(session_data)
    /\ ai_prompt'.question = Strip(raw_input'.value)
\* the gateway itself starts no further generate call, and the loop reads
\* again once it has ended, with the snapshot as it was
BackToReading ==
    /\ pc \in {"call_cloudflare_ai", "call_ollama_fallback"}
         => n_generate' = n_generate /\ ai_prompt' = ai_prompt
    /\ (pc = "ai_return" /\ ai_caller = "chat")
         => pc' = "chat_read" /\ n_generate' = n_generate
                /\ session_data' = session_data

\* C8 as stated: a line equal to "quit", "exit", "q" or "" ends the loop
\* with no generate call; every other line causes exactly one generate call
\* whose prompt embeds the snapshot, and then the loop reads again.
C8_QuitWordsOnly ==
    [][/\ ReadsLine => IF raw_input'.value \in QuitWords
                       THEN EndsLoopWithoutGenerate
                       ELSE GeneratesOnce
       /\ BackToReading]_vars

\* C8 as amended: a line that after stripping surrounding whitespace and
\* lower-casing equals "quit", "exit", "q" or "" ends the loop with no
\* generate call; every other line causes exactly one generate call whose
\* prompt embeds the snapshot, and then the loop reads again.
C8_QuitAfterStripLower ==
    [][/\ ReadsLine => IF Lower(Strip(raw_input'.value)) \in QuitWords
                       THEN EndsLoopWithoutGenerate
                       ELSE GeneratesOnce
       /\ BackToReading]_vars

C8_Witness ==
    /\ pc = "chat_read"
    /\ ai_caller = "chat"
    /\ turns = 1
    /\ n_generate = 2
    /\ raw_input.exc = "none" /\ raw_input.value = <<" ", "h", "i">>

(***************************************************************************)
(* Properties of the per-website steps of the collection pass              *)
(***************************************************************************)
IsPrefix(s, t) == Len(s) <= Len(t) /\ \A i \in 1..Len(s) : s[i] = t[i]
MetricsTypesSent == [i \in 1..Len(MetricsCalls) |-> MetricsCalls[i].type]
AllMetricsFailed ==
    /\ pc \in {"get_active_visitors", "collected"}
    /\ Len(MetricsCalls) > 0
    /\ \A i \in 1..Len(MetricsCalls) : ~MetricsCalls[i].ok

\* C11 as stated: the types sent to get_website_metrics are, in order, a
\* prefix of url, referrer, browser, os, country, and all five have been sent
\* when every one of them failed.
C11_FiveMetricTypes ==
    LET stated == <<"url", "referrer", "browser", "os", "country">> IN
    /\ IsPrefix(MetricsTypesSent, stated)
    /\ AllMetricsFailed => MetricsTypesSent = stated

\* C11, amended: the types sent to get_website_metrics are, in order, a
\* prefix of url, referrer, browser, os, device, country: after url,
\* referrer, browser and os failed the next type is device, country is the
\* last, and all six have been sent when every one of them failed.
C11_SixMetricTypes ==
    LET coded == <<"url", "referrer", "browser", "os", "device", "country">> IN
    /\ IsPrefix(MetricsTypesSent, coded)
    /\ AllMetricsFailed => MetricsTypesSent = coded

C11_Witness ==
    /\ Returned
    /\ AllMetricsFailed
    /\ Len(MetricsCalls) = 6
    /\ MetricsCalls[5].type = "device"
    /\ MetricsCalls[6].type = "country"

PerSiteTools ==
    <<"get_website_stats", "get_pageview_series", "get_website_metrics",
      "get_active_visitors">>
IsPerSite(name) == \E k \in 1..Len(PerSiteTools) : PerSiteTools[k] = name
PerSiteKeys ==
    UNION {SuccessKeys(PerSiteTools[k]) \cup ErrorKeys(PerSiteTools[k])
           : k \in 1..Len(PerSiteTools)}
IdResolved ==
    /\ "website_id" \in Keys
    /\ real_data["website_id"] # None
    /\ real_data["website_id"] # ""

\* C12: a per-website tool is called only in a pass that has resolved a
\* website id, and a snapshot without a resolved id has no key of a
\* per-website tool.
C12_NoIdNoPerSiteCall ==
    /\ \A i \in 1..Len(calls) : IsPerSite(calls[i].name) => IdResolved
    /\ ~IdResolved => PerSiteKeys \cap Keys = {}

\* get_websites answered and the record of the domain has no usable id
C12_Witness ==
    /\ Returned
    /\ mcp_tools = Tools
    /\ \E i \in 1..Len(calls) : calls[i].name = "get_websites" /\ calls[i].ok
    /\ \E i \in 1..Len(ParsedList(mcp_websites)) :
         /\ IsMatch(ParsedList(mcp_websites)[i], website_domain)
         /\ ParsedList(mcp_websites)[i].id = ""
    /\ "websites" \in Keys
    /\ ~IdResolved

Rank(name) == CHOOSE k \in 1..Len(PerSiteTools) : PerSiteTools[k] = name

\* C20: in a pass that resolved a website id and has returned, each of the
\* four per-website tools has been called exactly if it is advertised,
\* whichever of the calls failed, and the calls were made in the order
\* stats, pageviews, metrics, active visitors.
C20_PerSiteFailuresDoNotStop ==
    /\ (Returned /\ IdResolved)
         => \A k \in 1..Len(PerSiteTools) :
                PerSiteTools[k] \in mcp_tools <=> Attempted(PerSiteTools[k])
    /\ \A i, j \in 1..Len(calls) :
         (i < j /\ IsPerSite(calls[i].name) /\ IsPerSite(calls[j].name))
            => Rank(calls[i].name) <= Rank(calls[j].name)

C20_Witness ==
    /\ Returned
    /\ mcp_tools = Tools
    /\ Len(MetricsCalls) = Len(MetricTypes)
    /\ \A i \in 1..Len(calls) : IsPerSite(calls[i].name) => ~calls[i].ok
    /\ Attempted("get_website_stats")
    /\ Attempted("get_pageview_series")
    /\ Attempted("get_active_visitors")

(***************************************************************************)
(* Properties of create_dashboard                                          *)
(***************************************************************************)
OpFailed(op) == \E i \in 1..Len(calls) : calls[i].op = op /\ ~calls[i].ok
OpSucceeded(op) == \E i \in 1..Len(calls) : calls[i].op = op /\ calls[i].ok
OpCalled(op) == \E i \in 1..Len(calls) : calls[i].op = op
InStages(stage) == \E i \in 1..Len(stages) : stages[i] = stage

EntersChat == chat_state = "not_entered" /\ chat_state' = "running"
DashboardResponded ==
    pc = "ai_return" /\ ai_caller = "dashboard" /\ ai_result.exc = "none"

\* C13: a step enters the chat loop exactly if it is the step after the
\* dashboard generate call returned a response and chat is enabled; and a
\* run whose chat loop was entered had initialize and get_prompt succeed, a
\* prompt rendered from a non-empty guide, and a response generated.
C13_ChatIffEnabledAndAnswered ==
    [][/\ EntersChat <=> (DashboardResponded /\ enable_chat)
       /\ chat_state' # "not_entered"
            => /\ ~OpFailed("initialize")'
               /\ OpSucceeded("get_prompt")'
               /\ InStages("PromptRendered")'
               /\ InStages("ResponseGenerated")']_vars

C13_Witness ==
    /\ chat_state = "running"
    /\ pc = "chat_read"
    /\ turns = 0
    /\ enable_chat
    /\ ollama_result.exc = "none"

\* C14: after a failed initialize the run has ended, the log of session
\* operations holds that one call and nothing else, no generate call was
\* made and the chat loop was not entered.
C14_InitFailureEndsRun ==
    OpFailed("initialize")
        => /\ pc = "done"
           /\ calls = <<Call("initialize", None, None, FALSE)>>
           /\ stages = <<"Connected">>
           /\ n_generate = 0
           /\ ai_log = <<>>
           /\ chat_state = "not_entered"

C14_Witness ==
    /\ OpFailed("initialize")
    /\ pc = "done"
    /\ enable_chat
    /\ mcp_tools = Tools

\* C16: when list_prompts answered and "Create Dashboard" is not among the
\* names, the run has ended with no get_prompt call, no generate call,
\* hosted or local, and the chat loop not entered.
C16_NoDashboardPromptEndsRun ==
    (OpSucceeded("list_prompts") /\ "Create Dashboard" \notin prompts)
        => /\ pc = "done"
           /\ ~OpCalled("get_prompt")
           /\ n_generate = 0
           /\ ai_log = <<>>
           /\ chat_state = "not_entered"

C16_Witness ==
    /\ OpSucceeded("list_prompts")
    /\ prompts = {"Other"}
    /\ pc = "done"
    /\ enable_chat

(***************************************************************************)
(* Properties of the chat loop, continued                                  *)
(***************************************************************************)
StartsIteration == pc = "chat_read" /\ turns' = turns + 1
ReadFails == StartsIteration /\ raw_input'.exc \notin {"none", "KeyboardInterrupt"}
ReadInterrupted == StartsIteration /\ raw_input'.exc = "KeyboardInterrupt"
GenerateFails == pc = "ai_return" /\ ai_caller = "chat" /\ ai_result.exc # "none"
LoopContinues == pc' = "chat_read" /\ chat_state' = "running"
LoopEnds == pc' = "done" /\ chat_state' = "returned"

\* C15 as stated: an interrupt or an exception inside an iteration is caught
\* and the loop goes on to read the next input.
C15_AllCaughtLoopContinues ==
    [][(ReadFails \/ ReadInterrupted \/ GenerateFails) => LoopContinues]_vars

\* C15, amended: an exception inside an iteration (a failed input read, a
\* failed generation) is caught and the loop goes on to read the next input;
\* an interrupt at the input read is caught too, but ends the loop: chat_mode
\* returns; neither leaves chat_mode as an exception.
C15_InterruptEndsLoop ==
    [][/\ (ReadFails \/ GenerateFails) => LoopContinues
       /\ ReadInterrupted => LoopEnds
       /\ chat_state' # "raised"
       /\ pc' # "raised"]_vars

\* the second iteration is interrupted: the first went round the loop
C15_Witness ==
    /\ pc = "done"
    /\ chat_state = "returned"
    /\ raw_input.exc = "KeyboardInterrupt"
    /\ turns = 2

\* C18: a step taken while the chat loop runs leaves session_data and the
\* log of session operations as they were, and the prompt of every chat
\* generate call embeds the snapshot the one collection pass returned.
C18_ChatKeepsSnapshot ==
    [][/\ chat_state = "running"
            => /\ session_data' = session_data
               /\ real_data' = real_data
               /\ calls' = calls
       /\ ai_caller' = "chat"
            => /\ ai_prompt'.data = json_dumps(real_data')
               /\ Cardinality({i \in 1..Len(calls') : calls'[i].op = "list_tools"}) = 1]_vars

C18_Witness ==
    /\ chat_state = "running"
    /\ pc = "ai_return"
    /\ ai_caller = "chat"
    /\ turns = 2
    /\ "html" \in Keys
    /\ ai_prompt.data = json_dumps(session_data)

(***************************************************************************)
(* Termination of create_dashboard                                         *)
(***************************************************************************)
StageOrder ==
    <<"Connected", "Initialized", "DataCollected", "PromptRendered",
      "ResponseGenerated", "Audited">>

\* no session operation is made twice with the same arguments and there is
\* at most one dashboard generate call
NoRetry ==
    /\ \A i, j \in 1..Len(calls) :
         i < j => <<calls[i].op, calls[i].name, calls[i].type>>
                      # <<calls[j].op, calls[j].name, calls[j].type>>
    /\ n_generate <= 1

\* C17: with chat disabled every run comes to Done and stays there, no
\* exception leaves create_dashboard, the stages completed are at every
\* moment a prefix of Connected, Initialized, DataCollected, PromptRendered,
\* ResponseGenerated, Audited, and nothing is tried twice.
C17_RunsToDone ==
    /\ <>[](~enable_chat => pc = "done")
    /\ [](~enable_chat => /\ pc # "raised"
                          /\ chat_state = "not_entered"
                          /\ IsPrefix(stages, StageOrder)
                          /\ NoRetry)

C17_Witness ==
    /\ ~enable_chat
    /\ pc = "done"
    /\ stages = StageOrder
    /\ OpFailed("call_tool")
    /\ cf_error.exc # "unset"

(***************************************************************************)
(* Properties of detect_hallucinations                                     *)
(***************************************************************************)
\* two characters that are equal, or the two cases of one letter
SameLetter(a, b) ==
    \/ a = b
    \/ \E i \in 1..Len(UpperLetters) :
         {a, b} = {UpperLetters[i], LowerLetters[i]}

\* phrase occurs in text at some offset, the case of letters set aside
OccursIn(phrase, text) ==
    \E k \in 0..(Len(text) - Len(phrase)) :
        \A j \in 1..Len(phrase) : SameLetter(text[k + j], phrase[j])

Occurring(text) ==
    {i \in 1..Len(hallucination_indicator_list) :
        OccursIn(hallucination_indicator_list[i], text)}
Place(entry) ==
    CHOOSE i \in 1..Len(hallucination_indicator_list) :
        hallucination_indicator_list[i] = entry
FortyFive == <<"4", "5", "%", " ", "i", "n", "c", "r", "e", "a", "s", "e">>

\* C19: the result holds exactly the entries of the indicator list that
\* occur in the text whatever the case of the letters, in the order of the
\* list and each once; it is empty when none occurs, and it holds
\* "45% increase" when the text contains it.
C19_DetectsExactly ==
    pc = "audited" =>
        /\ \A k \in 1..Len(audit_out) :
             \E i \in Occurring(audit_in) :
                 audit_out[k] = hallucination_indicator_list[i]
        /\ \A i \in Occurring(audit_in) :
             \E k \in 1..Len(audit_out) :
                 audit_out[k] = hallucination_indicator_list[i]
        /\ \A k, l \in 1..Len(audit_out) :
             k < l => Place(audit_out[k]) < Place(audit_out[l])
        /\ Occurring(audit_in) = {} => audit_out = <<>>
        /\ OccursIn(FortyFive, audit_in)
             => \E k \in 1..Len(audit_out) : audit_out[k] = FortyFive

\* the phrase twice, in capitals and in small letters
C19_Witness ==
    /\ pc = "audited"
    /\ audit_in = <<"4", "5", "%", " ", "I", "N", "C", "R", "E", "A", "S", "E">> \o FortyFive
    /\ audit_out = <<FortyFive>>

(***************************************************************************)
(* Order of the backends in call_ai_with_fallback                          *)
(***************************************************************************)
CountIn(log, entry) == Cardinality({i \in 1..Len(log) : log[i] = entry})
HostedTexts == {Strip(t) : t \in RawTexts}

\* C21: in a call of call_ai_with_fallback nothing is attempted before the
\* hosted backend, which is attempted once; the local backend is invoked at
\* most once, after the hosted attempt and only when that attempt failed;
\* and a call whose hosted attempt succeeded ends with the hosted text
\* tagged "cloudflare", the local backend untouched.
C21_HostedFirstLocalOnFailure ==
    /\ pc = "call_cloudflare_ai" => ai_log = <<>>
    /\ pc \in {"call_ollama_fallback", "ai_return"}
         => /\ ai_log[1] = "call_cloudflare_ai"
            /\ CountIn(ai_log, "call_cloudflare_ai") = 1
            /\ CountIn(ai_log, "call_ollama_fallback") <= 1
            /\ InLog(ai_log, "call_ollama_fallback") => HostedFailed
    /\ pc = "call_ollama_fallback"
         => HostedFailed /\ ~InLog(ai_log, "call_ollama_fallback")
    /\ (pc = "ai_return" /\ ~HostedFailed)
         => /\ ai_result.exc = "none"
            /\ ai_result.value[1] \in HostedTexts
            /\ ai_result.value[2] = "cloudflare"
            /\ ai_log = <<"call_cloudflare_ai", "http_post">>
            /\ ollama_result = NoResult

\* the hosted backend answers a chat question
C21_Witness ==
    /\ pc = "ai_return"
    /\ ai_caller = "chat"
    /\ ~HostedFailed
    /\ ai_result.exc = "none"
    /\ ai_result.value[2] = "cloudflare"

(***************************************************************************)
(* Exits of the chat loop                                                  *)
(***************************************************************************)
TerminatingRead ==
    /\ StartsIteration
    /\ raw_input'.exc = "none"
    /\ Lower(Strip(raw_input'.value)) \in QuitWords
LeavesLoop == chat_state = "running" /\ chat_state' # "running"

\* C22: a step leaves the chat loop only by reading a terminating input
\* (quit, exit, q or nothing, after trimming and lower-casing) or by an
\* interrupt at the read, and then chat_mode returns: no exception leaves
\* it.  A read that fails with another exception leaves the loop running
\* and about to read again, so a run whose reads all fail so never ends.
C22_ExitsOnlyOnQuitOrInterrupt ==
    [][/\ LeavesLoop => /\ TerminatingRead \/ ReadInterrupted
                        /\ chat_state' = "returned"
                        /\ pc' = "done"
       /\ ReadInterrupted => LeavesLoop
       /\ ReadFails => /\ ~LeavesLoop
                       /\ pc' = "chat_read"
                       /\ n_generate' = n_generate]_vars

\* two reads, both failed with end of input: the loop still runs
C22_Witness ==
    /\ chat_state = "running"
    /\ pc = "chat_read"
    /\ turns = 2
    /\ n_generate = 1
    /\ raw_input.exc = "EOFError"

====
